---- MODULE Spec2Model ----
(***************************************************************************)
(* CV Classifier (src/app.py): text extraction from an uploaded file and   *)
(* the Streamlit script that displays the result and runs the classifier.  *)
(*                                                                         *)
(* Text is a sequence of Unicode code points, bytes are a sequence of      *)
(* numbers 0..255.  A file name is text.                                   *)
(***************************************************************************)
EXTENDS Integers, Sequences, FiniteSets, TLC

VARIABLES
    uploaded_file,  \* the file_uploader widget's value (NoFile: nothing uploaded)
    manual_text,    \* the text_area widget's value
    cv_text,        \* the script's cv_text when the run ends
    upload_view,    \* what the upload block displayed in the run
    prediction,     \* what the prediction block did in the run
    call,           \* the last call of extract_text_from_file and its outcome
    tmp_files       \* the temporary files on disk

vars == <<uploaded_file, manual_text, cv_text, upload_view, prediction, call, tmp_files>>

----------------------------------------------------------------------------
(* Bounds of the model *)

\* the most paragraphs of a .docx document, and pages of a .pdf document
MaxParas == 2
\* the most temporary files left on disk
MaxTmpFiles == 2

(* Constants of the program *)

\* app.py:52  len(text) > 100
MinTextLen == 100
\* app.py:53  text[:10000]
MaxTextLen == 10000
\* app.py:114  cv_text[:1000]
PreviewLen == 1000

----------------------------------------------------------------------------
(* String literals of the program, as code points *)

\* "Error"
ErrorWord == <<69, 114, 114, 111, 114>>
\* "Unsupported"
UnsupportedWord == <<85, 110, 115, 117, 112, 112, 111, 114, 116, 101, 100>>
\* "Unsupported file format: ."
UnsupportedPrefix == <<85, 110, 115, 117, 112, 112, 111, 114, 116, 101, 100, 32, 102, 105, 108, 101, 32, 102, 111, 114, 109, 97, 116, 58, 32, 46>>
\* "Error reading file: "
ErrorPrefix == <<69, 114, 114, 111, 114, 32, 114, 101, 97, 100, 105, 110, 103, 32, 102, 105, 108, 101, 58, 32>>
\* ", Paste the CV in the box provided"
ErrorSuffix == <<44, 32, 80, 97, 115, 116, 101, 32, 116, 104, 101, 32, 67, 86, 32, 105, 110, 32, 116, 104, 101, 32, 98, 111, 120, 32, 112, 114, 111, 118, 105, 100, 101, 100>>
\* "..."
Ellipsis == <<46, 46, 46>>
\* 'docx', 'doc', 'pdf'
ExtDocx == <<100, 111, 99, 120>>
ExtDoc == <<100, 111, 99>>
ExtPdf == <<112, 100, 102>>
\* '.'
Dot == 46
\* '\n'
Newline == 10
\* ' '
Space == 32

\* page.extract_text() returning None
None == <<-1>>

----------------------------------------------------------------------------
(* Text helpers *)

\* pat in s
Contains(s, pat) ==
    \/ pat = <<>>
    \/ \E i \in 1..(Len(s) - Len(pat) + 1) :
          s[i] = pat[1] /\ SubSeq(s, i, i + Len(pat) - 1) = pat

\* s[:n]
Take(s, n) == IF Len(s) <= n THEN s ELSE SubSeq(s, 1, n)

\* str.lower() of one character (the names of the model are ASCII)
LowerChar(c) == IF c >= 65 /\ c <= 90 THEN c + 32 ELSE c

\* str.lower()
Lower(s) == [i \in 1..Len(s) |-> LowerChar(s[i])]

RECURSIVE SplitFrom(_, _, _, _)
\* the parts of s from position i on, cur being the part read so far
SplitFrom(s, sep, i, cur) ==
    IF i > Len(s) THEN <<cur>>
    ELSE IF s[i] = sep THEN <<cur>> \o SplitFrom(s, sep, i + 1, <<>>)
    ELSE SplitFrom(s, sep, i + 1, Append(cur, s[i]))

\* s.split(sep): always at least one part
Split(s, sep) == SplitFrom(s, sep, 1, <<>>)

\* a join that leaves the separator out
RECURSIVE JoinMissingSeparator(_, _)
JoinMissingSeparator(sep, parts) ==
    IF parts = <<>> THEN <<>>
    ELSE Head(parts) \o JoinMissingSeparator(sep, Tail(parts))

RECURSIVE Join(_, _)
\* sep.join(parts)
Join(sep, parts) ==
    IF parts = <<>> THEN <<>>
    ELSE IF Len(parts) = 1 THEN Head(parts)
    ELSE Head(parts) \o sep \o Join(sep, Tail(parts))

\* uploaded_file.name.split('.')[-1], in the name's own letter case
RawExtension(name) == LET parts == Split(name, Dot) IN parts[Len(parts)]

\* the extension without .lower()
FileExtensionKeepCase(name) == RawExtension(name)

\* uploaded_file.name.split('.')[-1].lower()
FileExtension(name) == Lower(RawExtension(name))

----------------------------------------------------------------------------
(* The .doc branch: decoding, cleaning, whitespace normalisation *)

\* b[i], or -1 past the end
ByteAt(b, i) == IF i <= Len(b) THEN b[i] ELSE -1

\* a UTF-8 continuation byte
IsCont(x) == x >= 128 /\ x <= 191

\* The length of the well-formed UTF-8 sequence that starts at b[i], 0 if none
\* does.  A continuation byte starts none, and every byte inside a well-formed
\* sequence is a continuation byte, so whether a sequence starts at i does not
\* depend on the bytes before i.
Utf8SeqLen(b, i) ==
    LET c  == b[i]
        c1 == ByteAt(b, i + 1)
        c2 == ByteAt(b, i + 2)
        c3 == ByteAt(b, i + 3)
    IN  IF c < 128 THEN 1
        ELSE IF c >= 194 /\ c <= 223 THEN (IF IsCont(c1) THEN 2 ELSE 0)
        ELSE IF c >= 224 /\ c <= 239
             THEN (IF /\ IsCont(c1)
                      /\ (c = 224 => c1 >= 160)
                      /\ (c = 237 => c1 <= 159)
                      /\ IsCont(c2)
                   THEN 3 ELSE 0)
        ELSE IF c >= 240 /\ c <= 244
             THEN (IF /\ IsCont(c1)
                      /\ (c = 240 => c1 >= 144)
                      /\ (c = 244 => c1 <= 143)
                      /\ IsCont(c2)
                      /\ IsCont(c3)
                   THEN 4 ELSE 0)
        ELSE 0

\* The code point of the well-formed sequence at b[i], -1 if none starts there
Utf8CodePoint(b, i) ==
    LET n == Utf8SeqLen(b, i)
    IN  IF n = 1 THEN b[i]
        ELSE IF n = 2 THEN (b[i] - 192) * 64 + (b[i + 1] - 128)
        ELSE IF n = 3 THEN (b[i] - 224) * 4096 + (b[i + 1] - 128) * 64 + (b[i + 2] - 128)
        ELSE IF n = 4 THEN (b[i] - 240) * 262144 + (b[i + 1] - 128) * 4096
                           + (b[i + 2] - 128) * 64 + (b[i + 3] - 128)
        ELSE -1

IsDecoded(x) == x # -1

\* content.decode('utf-8', errors = 'ignore'): bytes of no well-formed sequence
\* are dropped
DecodeUtf8(b) ==
    SelectSeq([i \in 1..Len(b) |-> Utf8CodePoint(b, i)], IsDecoded)

\* content.decode('latin-1', errors = 'ignore'): byte x is code point x
DecodeLatin1(b) == [i \in 1..Len(b) |-> b[i]]

\* cp1252's code points for the bytes 0x80..0x9F; -1: the byte is undefined
Cp1252High ==
    <<8364, -1, 8218, 402, 8222, 8230, 8224, 8225, 710, 8240, 352, 8249, 338, -1, 381, -1,
      -1, 8216, 8217, 8220, 8221, 8226, 8211, 8212, 732, 8482, 353, 8250, 339, -1, 382, 376>>

Cp1252CodePoint(x) == IF x >= 128 /\ x <= 159 THEN Cp1252High[x - 127] ELSE x

\* content.decode('cp1252', errors = 'ignore'): undefined bytes are dropped
DecodeCp1252(b) ==
    SelectSeq([i \in 1..Len(b) |-> Cp1252CodePoint(b[i])], IsDecoded)

\* ['utf-8', 'latin-1', 'cp1252']
Encodings == <<"utf-8", "latin-1", "cp1252">>

\* content.decode(encoding, errors = 'ignore')
Decode(b, encoding) ==
    CASE encoding = "utf-8"   -> DecodeUtf8(b)
      [] encoding = "latin-1" -> DecodeLatin1(b)
      [] encoding = "cp1252"  -> DecodeCp1252(b)

\* the class [\x00-\x08\x0B\x0C\x0E-\x1F\x7F-\xFF]
IsGarbage(c) ==
    \/ c >= 0 /\ c <= 8
    \/ c = 11
    \/ c = 12
    \/ c >= 14 /\ c <= 31
    \/ c >= 127 /\ c <= 255

\* re.sub(r'[\x00-\x08\x0B\x0C\x0E-\x1F\x7F-\xFF]', ' ', text)
StripGarbage(text) == [i \in 1..Len(text) |-> IF IsGarbage(text[i]) THEN Space ELSE text[i]]

\* str.isspace() of one character: what str.split() splits on
IsSpace(c) ==
    \/ c >= 9 /\ c <= 13
    \/ c >= 28 /\ c <= 32
    \/ c = 133
    \/ c = 160
    \/ c = 5760
    \/ c >= 8192 /\ c <= 8202
    \/ c = 8232
    \/ c = 8233
    \/ c = 8239
    \/ c = 8287
    \/ c = 12288

IsKept(x) == x # -1

\* ' '.join(text.split()): the words of text with one space between two words.
\* Computed by position: a character of a word is kept, a whitespace character
\* that follows a word becomes the one space after it, any other whitespace is
\* dropped; the space after the last word is dropped.
NormalizeWhitespace(text) ==
    LET marked == [i \in 1..Len(text) |->
                     IF ~IsSpace(text[i]) THEN text[i]
                     ELSE IF i > 1 /\ ~IsSpace(text[i - 1]) THEN Space
                     ELSE -1]
        kept == SelectSeq(marked, IsKept)
        m == Len(kept)
    IN  IF m > 0 /\ kept[m] = Space THEN SubSeq(kept, 1, m - 1) ELSE kept

\* app.py:46-50: the text one encoding gives
CleanedText(content, encoding) ==
    NormalizeWhitespace(StripGarbage(Decode(content, encoding)))

\* len(text) >= 100
IsReasonableAtLeast(text) == Len(text) >= MinTextLen

\* len(text) > 100
IsReasonable(text) == Len(text) > MinTextLen

\* text[:10000]
LimitLength(text) == Take(text, MaxTextLen)

RECURSIVE DecodeLoop(_, _)
\* for encoding in [...]: return the first reasonable text; return "" after the loop
DecodeLoop(content, encodings) ==
    IF encodings = <<>> THEN <<>>
    ELSE LET text == CleanedText(content, Head(encodings))
         IN  IF IsReasonable(text) THEN LimitLength(text)
             ELSE DecodeLoop(content, Tail(encodings))

----------------------------------------------------------------------------
(* Uploaded files *)

\* An uploaded file: its name, its bytes, and what the document parser
\* (docx.Document, pdfplumber.open) makes of the bytes: ok = FALSE if it raises,
\* else the paragraph texts (.docx) or the pages' extract_text() results (.pdf).
File(name, content, parsed) ==
    [present |-> TRUE, name |-> name, content |-> content, parsed |-> parsed]

Document(items) == [ok |-> TRUE, items |-> items]

\* a file the parser cannot read
Corrupt == [ok |-> FALSE, items |-> <<>>]

\* the file_uploader's value when nothing is uploaded (None)
NoFile == [present |-> FALSE, name |-> <<>>, content |-> <<>>, parsed |-> Corrupt]

\* str(e) of the exception raised at a step
ExceptionMessage(step) ==
    CASE step = "mktemp" -> <<100, 105, 115, 107, 32, 102, 117, 108, 108>>  \* "disk full"
      [] step = "write"  -> <<100, 105, 115, 107, 32, 102, 117, 108, 108>>  \* "disk full"
      [] step = "parse"  -> <<98, 97, 100, 32, 102, 105, 108, 101>>         \* "bad file"
      [] step = "unlink" -> <<98, 117, 115, 121>>                          \* "busy"

----------------------------------------------------------------------------
(* extract_text_from_file *)

\* How the try block ends: "fall" (it runs to its end), "return" (a return
\* inside it) or "raise" (an exception leaves it).  exc: an exception occurred;
\* read: the upload's bytes were read; created: a temporary file was created;
\* left: the temporary file was not deleted.
Outcome(how, branch, text, msg, exc, read, created, left) ==
    [how |-> how, branch |-> branch, text |-> text, msg |-> msg, exc |-> exc,
     read |-> read, created |-> created, left |-> left]

\* [para.text for para in doc.paragraphs]
ParagraphTexts(file) == file.parsed.items

\* bool(page.extract_text())
HasText(t) == t # None /\ t # <<>>

\* [page.extract_text() for page in pdf.pages if page.extract_text()]
PageTexts(file) == SelectSeq(file.parsed.items, HasText)

\* The steps both temporary-file branches share (app.py:29-35 and 65-72):
\* create the temporary file, write the upload to it, parse it, join, unlink.
\* io names the step at which the environment fails, "ok" if none does.
ViaTempFile(branch, file, io, items) ==
    IF io = "mktemp"
    THEN Outcome("raise", branch, <<>>, ExceptionMessage("mktemp"), TRUE, FALSE, FALSE, FALSE)
    ELSE IF io = "write"
    THEN Outcome("raise", branch, <<>>, ExceptionMessage("write"), TRUE, TRUE, TRUE, TRUE)
    ELSE IF ~file.parsed.ok
    THEN Outcome("raise", branch, <<>>, ExceptionMessage("parse"), TRUE, TRUE, TRUE, TRUE)
    ELSE IF io = "unlink"
    THEN Outcome("raise", branch, Join(<<Newline>>, items), ExceptionMessage("unlink"),
                 TRUE, TRUE, TRUE, TRUE)
    ELSE Outcome("fall", branch, Join(<<Newline>>, items), <<>>, FALSE, TRUE, TRUE, FALSE)

\* app.py:27-35
DocxBranch(file, io) == ViaTempFile("docx", file, io, ParagraphTexts(file))

\* app.py:64-72
PdfBranch(file, io) == ViaTempFile("pdf", file, io, PageTexts(file))

\* app.py:37-61: both the loop's returns and the inner handler's return leave
\* the function from inside the try block
DocBranch(file, io) ==
    IF io = "getvalue"
    THEN Outcome("return", "doc", <<>>, <<>>, TRUE, FALSE, FALSE, FALSE)
    ELSE Outcome("return", "doc", DecodeLoop(file.content, Encodings), <<>>,
                 FALSE, TRUE, FALSE, FALSE)

\* the message without the extension
UnsupportedTextNoExtension(file_extension) == UnsupportedPrefix

\* f"Unsupported file format: .{file_extension}"
UnsupportedText(file_extension) == UnsupportedPrefix \o file_extension

\* app.py:74-75
UnsupportedBranch(file_extension) ==
    Outcome("fall", "unsupported", UnsupportedText(file_extension), <<>>,
            FALSE, FALSE, FALSE, FALSE)

\* app.py:25-75: the try block
TryBlock(file, io) ==
    LET file_extension == FileExtension(file.name)
    IN  IF file_extension = ExtDocx THEN DocxBranch(file, io)
        ELSE IF file_extension = ExtDoc THEN DocBranch(file, io)
        ELSE IF file_extension = ExtPdf THEN PdfBranch(file, io)
        ELSE UnsupportedBranch(file_extension)

\* f"Error reading file: {str(e)}, Paste the CV in the box provided"
ErrorText(msg) == ErrorPrefix \o msg \o ErrorSuffix

Result(o, text, raised) ==
    [branch |-> o.branch, text |-> text, raised |-> raised, exc |-> o.exc,
     read |-> o.read, created |-> o.created, left |-> o.left]

\* a handler that catches OSError only: a parser's exception leaves the function
ExceptOSErrorOnly(o) ==
    IF o.how = "raise" /\ o.msg = ExceptionMessage("parse") THEN Result(o, <<>>, TRUE)
    ELSE IF o.how = "raise" THEN Result(o, ErrorText(o.msg), FALSE)
    ELSE Result(o, o.text, FALSE)

\* app.py:77-80: except Exception as e: text = ...; return text
ExceptAndReturn(o) ==
    IF o.how = "raise" THEN Result(o, ErrorText(o.msg), FALSE)
    ELSE Result(o, o.text, FALSE)

\* app.py:18-80
extract_text_from_file(file, io) == ExceptAndReturn(TryBlock(file, io))

\* The steps of a call on file at which the environment can fail
Faults(file) ==
    LET file_extension == FileExtension(file.name)
    IN  IF ~file.present THEN {"ok"}
        ELSE IF file_extension \in {ExtDocx, ExtPdf} THEN {"ok", "mktemp", "write", "unlink"}
        ELSE IF file_extension = ExtDoc THEN {"ok", "getvalue"}
        ELSE {"ok"}

\* The name tempfile gives a new temporary file: one no file on disk has
NewTmp(files) == CHOOSE i \in 1..(Cardinality(files) + 1) : i \notin files

\* The record of a call: its arguments, its result and its temporary file
CallRecord(file, io, r, tmp) ==
    [file |-> file, io |-> io, branch |-> r.branch, text |-> r.text, raised |-> r.raised,
     exc |-> r.exc, read |-> r.read, created |-> r.created, left |-> r.left,
     tmp |-> IF r.created THEN tmp ELSE 0]

NoCall ==
    [file |-> NoFile, io |-> "ok", branch |-> "none", text |-> <<>>, raised |-> FALSE,
     exc |-> FALSE, read |-> FALSE, created |-> FALSE, left |-> FALSE, tmp |-> 0]

\* The disk after a call: the call's temporary file is on it if it was left
DiskAfter(files, r) == IF r.left THEN files \cup {NewTmp(files)} ELSE files

----------------------------------------------------------------------------
(* The script: upload block, paste box, prediction block *)

\* "Error" in text or "Unsupported" in text (app.py:100 and 127)
IsFailureText(text) == Contains(text, ErrorWord) \/ Contains(text, UnsupportedWord)

\* f"{uploaded_file.size / 1024:.1f}" in tenths of a KB: size / 1024 is exact in
\* binary floating point and the format rounds it half to even
FileSizeTenths(size) ==
    LET q == (size * 10) \div 1024
        r == (size * 10) % 1024
    IN  IF r > 512 \/ (r = 512 /\ q % 2 = 1) THEN q + 1 ELSE q

\* cv_text[:1000] + "..." if len(cv_text) > 1000 else cv_text
Preview(text) ==
    IF Len(text) > PreviewLen THEN Take(text, PreviewLen) \o Ellipsis ELSE text

View(kind, message, file_type, file_size, text_length, preview) ==
    [kind |-> kind, message |-> message, file_type |-> file_type,
     file_size |-> file_size, text_length |-> text_length, preview |-> preview]

\* nothing is displayed when no file is uploaded
NoView == View("none", <<>>, <<>>, 0, 0, <<>>)

\* st.success and the three metrics and the preview (app.py:101-114)
SuccessView(file, text) ==
    View("success", file.name, <<Dot>> \o RawExtension(file.name),
         FileSizeTenths(Len(file.content)), Len(text), Preview(text))

\* st.error(cv_text) (app.py:116)
ErrorView(text) == View("error", text, <<>>, 0, 0, <<>>)

\* an upload block that takes an empty text for a failure
UploadViewEmptyIsError(file, text) ==
    IF ~file.present THEN NoView
    ELSE IF text # <<>> /\ ~IsFailureText(text) THEN SuccessView(file, text)
    ELSE ErrorView(text)

\* app.py:96-116
UploadView(file, text) ==
    IF ~file.present THEN NoView
    ELSE IF ~IsFailureText(text) THEN SuccessView(file, text)
    ELSE ErrorView(text)

\* a fallback that prefers the pasted text
ChooseTextPreferManual(text, manual) ==
    IF manual # <<>> THEN manual ELSE text

\* app.py:123-124: if not cv_text and manual_text: cv_text = manual_text
ChooseText(text, manual) ==
    IF text = <<>> /\ manual # <<>> THEN manual ELSE text

\* pipeline.classes_: the labels of the trained pipeline, which is loaded from
\* cv_classifier_nb.pkl; these stand for them
Classes == <<"class_a", "class_b", "class_c">>

\* pipeline.predict([cv_text])[0]: one label, a function of the text alone.
\* The trained pipeline is not part of the source; this stands for it.
Predict(text) == Classes[((Len(text) + text[1]) % Len(Classes)) + 1]

NoPrediction == [shown |-> FALSE, input |-> <<>>, label |-> "none"]

\* app.py:126-148
PredictionBlock(text) ==
    IF text # <<>> /\ ~IsFailureText(text)
    THEN [shown |-> TRUE, input |-> text, label |-> Predict(text)]
    ELSE NoPrediction

\* One run of the script (app.py:94-148) with the widgets' values file and
\* manual; io is where the environment fails in the extraction, if it does.
RunScript(file, manual, io) ==
    LET r == extract_text_from_file(file, io)
        extracted == IF file.present THEN r.text ELSE <<>>
        final == ChooseText(extracted, manual)
    IN  /\ file.present /\ r.created => Cardinality(tmp_files) < MaxTmpFiles
        /\ call' = IF file.present THEN CallRecord(file, io, r, NewTmp(tmp_files)) ELSE NoCall
        /\ tmp_files' = IF file.present THEN DiskAfter(tmp_files, r) ELSE tmp_files
        /\ upload_view' = UploadView(file, extracted)
        /\ cv_text' = final
        /\ prediction' = PredictionBlock(final)

----------------------------------------------------------------------------
(* Inputs *)

\* [1..count -> unit] repeated: unit, count times over
Repeat(unit, count) ==
    [i \in 1..(count * Len(unit)) |-> unit[((i - 1) % Len(unit)) + 1]]

\* all sequences over S of length at most n
SeqsUpTo(S, n) == UNION {[1..k -> S] : k \in 0..n}

\* "A", "B"
TextA == <<65>>
TextB == <<66>>
\* "Error log", a genuine text with the word Error in it
TextErrorLog == <<69, 114, 114, 111, 114, 32, 108, 111, 103>>
\* "Unsupported OS", a genuine text with the word Unsupported in it
TextUnsupportedOS == <<85, 110, 115, 117, 112, 112, 111, 114, 116, 101, 100, 32, 79, 83>>
\* "pasted cv"
TextPasted == <<112, 97, 115, 116, 101, 100, 32, 99, 118>>
\* "hello"
TextHello == <<104, 101, 108, 108, 111>>

ParaAlphabet == {<<>>, TextA, TextB}
PageAlphabet == {None, TextA, TextB}

DocxDocuments ==
    {Document(ps) : ps \in SeqsUpTo(ParaAlphabet, MaxParas)}
        \cup {Corrupt, Document(<<TextErrorLog>>), Document(<<TextUnsupportedOS>>)}

PdfDocuments ==
    {Document(ps) : ps \in SeqsUpTo(PageAlphabet, MaxParas)}
        \cup {Corrupt, Document(<<<<>>, TextErrorLog>>)}

\* "cv.docx", "a.b.Docx"
DocxFiles ==
    {File(<<99, 118, 46, 100, 111, 99, 120>>, <<80, 75>>, d) : d \in DocxDocuments}
        \cup {File(<<97, 46, 98, 46, 68, 111, 99, 120>>, <<80, 75>>, Document(<<TextA, TextB>>))}

\* "cv.pdf", "CV.PDF", and "pdf", a name with no '.' in it
PdfFiles ==
    {File(<<99, 118, 46, 112, 100, 102>>, <<37, 80, 68, 70>>, d) : d \in PdfDocuments}
        \cup {File(<<67, 86, 46, 80, 68, 70>>, <<37, 80, 68, 70>>, Document(<<TextA>>)),
              File(<<112, 100, 102>>, <<37, 80, 68, 70>>, Document(<<TextA>>))}

\* The bytes of the .doc files: around the length threshold, with bytes the
\* encodings read differently, and with a genuine "Error"
DocContents ==
    {<<>>, TextHello,
     Repeat(<<65, 32>>, MinTextLen \div 2),
     Repeat(<<65, 32>>, MinTextLen \div 2 + 1),
     Repeat(<<65, 128>>, MinTextLen \div 2 + 1),
     Repeat(<<128>>, MinTextLen + 1),
     Repeat(<<69, 114, 114, 111, 114, 32>>, MinTextLen \div 5)}

\* "cv.doc", "My.Doc"
DocFiles ==
    {File(<<99, 118, 46, 100, 111, 99>>, c, Corrupt) : c \in DocContents}
        \cup {File(<<77, 121, 46, 68, 111, 99>>, Repeat(<<65, 32>>, MinTextLen \div 2 + 1), Corrupt)}

\* "cv.txt", "CV.TXT", "cv.rtf", "cv.", "cv.pdf.txt", "cv.docx.bak"
OtherNames ==
    {<<99, 118, 46, 116, 120, 116>>, <<67, 86, 46, 84, 88, 84>>, <<99, 118, 46, 114, 116, 102>>,
     <<99, 118, 46>>, <<99, 118, 46, 112, 100, 102, 46, 116, 120, 116>>,
     <<99, 118, 46, 100, 111, 99, 120, 46, 98, 97, 107>>}

OtherFiles == {File(n, TextHello, Corrupt) : n \in OtherNames}

\* every file extract_text_from_file is called on
Files == DocxFiles \cup PdfFiles \cup DocFiles \cup OtherFiles

\* type = ['docx', 'doc', 'pdf']: the file_uploader takes a file whose name ends
\* in '.' and one of the types, in any letter case
UploaderAccepts(name) ==
    /\ Len(Split(name, Dot)) > 1
    /\ FileExtension(name) \in {ExtDocx, ExtDoc, ExtPdf}

\* The files a user uploads: readable and corrupt documents, documents with no
\* text, genuine texts with the words "Error" and "Unsupported" in them, .doc
\* files on both sides of the length threshold and one longer than the preview
UploadCandidates ==
    {File(<<99, 118, 46, 100, 111, 99, 120>>, <<80, 75>>, d) :
        d \in {Corrupt, Document(<<>>), Document(<<TextA, TextB>>),
               Document(<<TextErrorLog>>), Document(<<TextUnsupportedOS>>)}}
    \cup {File(<<99, 118, 46, 112, 100, 102>>, <<37, 80, 68, 70>>, d) :
        d \in {Corrupt, Document(<<None>>), Document(<<TextA, None, TextB>>),
               Document(<<<<>>, TextErrorLog>>)}}
    \cup {File(<<67, 86, 46, 80, 68, 70>>, <<37, 80, 68, 70>>, Document(<<TextA>>))}
    \cup {File(<<99, 118, 46, 100, 111, 99>>, c, Corrupt) :
        c \in {TextHello,
               Repeat(<<65, 32>>, MinTextLen \div 2 + 1),
               Repeat(<<69, 114, 114, 111, 114, 32>>, MinTextLen \div 5),
               Repeat(<<65, 32>>, PreviewLen \div 2 + 1)}}
    \cup OtherFiles

UploaderFiles == {f \in UploadCandidates : UploaderAccepts(f.name)}

\* what a user pastes
ManualTexts == {<<>>, TextPasted, TextErrorLog}

----------------------------------------------------------------------------
(* The script's runs: Streamlit runs the script once at the start and again
   whenever a widget's value changes *)

Init ==
    /\ uploaded_file = NoFile
    /\ manual_text = <<>>
    /\ cv_text = <<>>
    /\ upload_view = NoView
    /\ prediction = NoPrediction
    /\ call = NoCall
    /\ tmp_files = {}

\* the user uploads a file (or replaces the uploaded one)
UploadFile(f, io) ==
    /\ f # uploaded_file
    /\ uploaded_file' = f
    /\ manual_text' = manual_text
    /\ RunScript(f, manual_text, io)

\* the user removes the uploaded file
RemoveFile ==
    /\ uploaded_file.present
    /\ uploaded_file' = NoFile
    /\ manual_text' = manual_text
    /\ RunScript(NoFile, manual_text, "ok")

\* the user changes the paste box
EditText(t, io) ==
    /\ t # manual_text
    /\ manual_text' = t
    /\ uploaded_file' = uploaded_file
    /\ RunScript(uploaded_file, t, io)

Next ==
    \/ \E f \in UploaderFiles : \E io \in Faults(f) : UploadFile(f, io)
    \/ RemoveFile
    \/ \E t \in ManualTexts : \E io \in Faults(uploaded_file) : EditText(t, io)

Spec == Init /\ [][Next]_vars

----------------------------------------------------------------------------
(* extract_text_from_file called on its own, on any file *)

CallExtract(f, io) ==
    LET r == extract_text_from_file(f, io)
    IN  /\ r.created => Cardinality(tmp_files) < MaxTmpFiles
        /\ call' = CallRecord(f, io, r, NewTmp(tmp_files))
        /\ tmp_files' = DiskAfter(tmp_files, r)
        /\ UNCHANGED <<uploaded_file, manual_text, cv_text, upload_view, prediction>>

NextExtract == \E f \in Files : \E io \in Faults(f) : CallExtract(f, io)

SpecExtract == Init /\ [][NextExtract]_vars

----------------------------------------------------------------------------
(* extract_text_from_file called once on a .doc file of any length *)

\* What a .doc file's bytes repeat: "A", "A ", 'A' and the byte 0x80 (no UTF-8,
\* a C1 control in latin-1, the euro sign in cp1252), 0x80 alone, 0x81 (in no
\* encoding a character that is kept), U+00E9 and U+0100 in UTF-8, NUL and 'A',
\* tab, newline and 'A', and 'A' and U+2003 (EM SPACE) in UTF-8
DocUnits ==
    {<<65>>, <<65, 32>>, <<65, 128>>, <<128>>, <<129>>, <<195, 169>>, <<196, 128>>,
     <<0, 65>>, <<9, 10, 65>>, <<65, 226, 128, 131>>}

\* what a long .doc file's bytes repeat: text every encoding reads, and a byte
\* only the last encoding reads
LongDocUnits == {<<65>>, <<65, 32>>, <<128>>}

\* how often: around half the length threshold and around it
RepeatCounts ==
    {0, 1, MinTextLen \div 2, MinTextLen \div 2 + 1, MinTextLen, MinTextLen + 1}

\* how often in a long file: around half the length limit and around it
LongRepeatCounts ==
    {MaxTextLen \div 2, MaxTextLen \div 2 + 1, MaxTextLen, MaxTextLen + 1}

\* "cv.doc"
LongDocFiles ==
    {File(<<99, 118, 46, 100, 111, 99>>, Repeat(u, k), Corrupt) :
        u \in DocUnits, k \in RepeatCounts}
    \cup {File(<<99, 118, 46, 100, 111, 99>>, Repeat(u, k), Corrupt) :
        u \in LongDocUnits, k \in LongRepeatCounts}

NextDoc ==
    \E f \in LongDocFiles : \E io \in Faults(f) : call = NoCall /\ CallExtract(f, io)

SpecDoc == Init /\ [][NextDoc]_vars

----------------------------------------------------------------------------
(* The claims.  They speak of the program's strings and numbers in their own
   words: the definitions below do not use the program's. *)

\* the text after the last '.' of name (all of name if it has no '.'), lowered
ClaimExtension(name) ==
    LET dots == {i \in 1..Len(name) : name[i] = 46}
        last == IF dots = {} THEN 0 ELSE CHOOSE i \in dots : \A j \in dots : j <= i
    IN  [i \in 1..(Len(name) - last) |->
            IF name[last + i] >= 65 /\ name[last + i] <= 90
            THEN name[last + i] + 32 ELSE name[last + i]]

\* word occurs in text
Occurs(word, text) ==
    \E i \in 1..Len(text) :
        /\ i + Len(word) - 1 <= Len(text)
        /\ \A j \in 1..Len(word) : text[i + j - 1] = word[j]

\* "Error reading file"
SaysErrorReadingFile(text) ==
    Occurs(<<69, 114, 114, 111, 114, 32, 114, 101, 97, 100, 105, 110, 103, 32, 102, 105, 108, 101>>, text)

\* "Unsupported file format"
SaysUnsupportedFormat(text) ==
    Occurs(<<85, 110, 115, 117, 112, 112, 111, 114, 116, 101, 100, 32, 102, 105, 108, 101, 32,
             102, 111, 114, 109, 97, 116>>, text)

\* "Error" or "Unsupported"
SaysErrorOrUnsupported(text) ==
    \/ Occurs(<<69, 114, 114, 111, 114>>, text)
    \/ Occurs(<<85, 110, 115, 117, 112, 112, 111, 114, 116, 101, 100>>, text)

\* extract_text_from_file has been called
Called == call.branch # "none"

\* the call's file has one of the handled extensions
HandledExtension ==
    ClaimExtension(call.file.name) \in
        {<<100, 111, 99, 120>>, <<100, 111, 99>>, <<112, 100, 102>>}

\* the call's text is a sentinel: made by the unsupported-format branch or by
\* the handler of an exception
IsSentinel == call.branch = "unsupported" \/ (call.exc /\ call.branch \in {"docx", "pdf"})

(* C1 *)

\* C1, as claimed: extract_text_from_file never raises to its caller, and
\* whenever an exception occurred during the extraction the returned text
\* contains "Error reading file".
C1_ErrorTextOnEveryException ==
    Called => ~call.raised /\ (call.exc => SaysErrorReadingFile(call.text))

\* C1, amended: extract_text_from_file never raises to its caller; when an
\* exception occurred in the .docx or the .pdf branch the returned text contains
\* "Error reading file", and when reading the bytes of a .doc file raised the
\* returned text is the empty string.
C1_NeverRaises ==
    Called =>
        /\ ~call.raised
        /\ call.exc /\ ClaimExtension(call.file.name) # <<100, 111, 99>>
              => SaysErrorReadingFile(call.text)
        /\ call.exc /\ ClaimExtension(call.file.name) = <<100, 111, 99>>
              => call.text = <<>>

\* a corrupt PDF was passed and the call returned the error text
C1_Witness ==
    /\ call.branch = "pdf"
    /\ ~call.file.parsed.ok
    /\ call.io = "ok"
    /\ call.exc
    /\ ~call.raised
    /\ SaysErrorReadingFile(call.text)

(* C2 *)

\* C2, as claimed: every temporary file an extraction call created is deleted
\* when the call returns, on every path, so no temporary file is on disk after
\* any sequence of calls.
C2_TempFilesDeleted == tmp_files = {} /\ (call.created => ~call.left)

(* C3 *)

\* C3, as claimed: for a file whose extension is .txt the extraction returns the
\* file's content decoded as UTF-8.
C3_TxtDecoded ==
    Called /\ ClaimExtension(call.file.name) = <<116, 120, 116>>
        => call.text = DecodeUtf8(call.file.content)

\* C3, amended: for a file whose extension is .txt the extraction returns
\* "Unsupported file format: .txt" and does not read the file's content.
C3_TxtUnsupported ==
    Called /\ ClaimExtension(call.file.name) = <<116, 120, 116>>
        => /\ call.text = <<85, 110, 115, 117, 112, 112, 111, 114, 116, 101, 100, 32, 102, 105,
                            108, 101, 32, 102, 111, 114, 109, 97, 116, 58, 32, 46, 116, 120, 116>>
           /\ ~call.read

\* "CV.TXT" with the content "hello" was passed and reported as unsupported
C3_Witness ==
    /\ call.file.name = <<67, 86, 46, 84, 88, 84>>
    /\ call.file.content = <<104, 101, 108, 108, 111>>
    /\ SaysUnsupportedFormat(call.text)

(* C4 *)

\* C4: for a name whose extension (the text after the last '.', lowered) is not
\* docx, doc or pdf the call returns a text containing "Unsupported file
\* format", reads no bytes and creates no temporary file; a name with one of
\* these extensions in any letter case is not reported as unsupported.
C4_UnsupportedFormat ==
    Called =>
        /\ ~HandledExtension =>
              /\ SaysUnsupportedFormat(call.text)
              /\ ~call.read
              /\ ~call.created
        /\ HandledExtension =>
              /\ call.branch # "unsupported"
              /\ ~SaysUnsupportedFormat(call.text)

\* "cv.docx.bak" was passed: unsupported, nothing read, nothing created
C4_Witness ==
    /\ call.file.name = <<99, 118, 46, 100, 111, 99, 120, 46, 98, 97, 107>>
    /\ SaysUnsupportedFormat(call.text)
    /\ ~call.read
    /\ ~call.created

(* C8 *)

RECURSIVE LinesOf(_)
\* the texts ps, each but the first after a newline
LinesOf(ps) ==
    IF Len(ps) = 0 THEN <<>>
    ELSE IF Len(ps) = 1 THEN ps[1]
    ELSE LinesOf(SubSeq(ps, 1, Len(ps) - 1)) \o <<10>> \o ps[Len(ps)]

\* C8: for a .docx file with the paragraphs p1..pn the extraction returns the
\* paragraph texts in document order with one newline between two consecutive
\* paragraphs, empty paragraphs kept and no newline at the end.
C8_DocxParagraphs ==
    call.branch = "docx" /\ ~call.exc =>
        LET ps == call.file.parsed.items
        IN  call.text = LinesOf(ps)

\* the paragraphs ["A", "B"] gave "A\nB"
C8_Witness ==
    /\ call.branch = "docx"
    /\ ~call.exc
    /\ call.file.parsed.items = <<<<65>>, <<66>>>>
    /\ call.text = <<65, 10, 66>>

(* C9 *)

\* the first n characters of text
FirstChars(text, n) == [i \in 1..(IF Len(text) < n THEN Len(text) ELSE n) |-> text[i]]

\* C9: for a .doc file the call returns the empty string or a text of more than
\* 100 and at most 10000 characters: the first 10000 characters of the cleaned
\* text of the first of utf-8, latin-1, cp1252 whose cleaned text is longer than
\* 100 characters.  It returns the empty string, and no "Error reading file"
\* text, when no encoding gives more than 100 characters or reading the bytes
\* raises.
C9_DocText ==
    Called /\ ClaimExtension(call.file.name) = <<100, 111, 99>> =>
        LET utf8   == CleanedText(call.file.content, "utf-8")
            latin1 == CleanedText(call.file.content, "latin-1")
            cp1252 == CleanedText(call.file.content, "cp1252")
            first  == IF Len(utf8) > 100 THEN utf8
                      ELSE IF Len(latin1) > 100 THEN latin1
                      ELSE cp1252
        IN  /\ ~call.raised
            /\ call.text = <<>> \/ (Len(call.text) > 100 /\ Len(call.text) <= 10000)
            /\ call.io = "getvalue" \/ Len(first) <= 100 => call.text = <<>>
            /\ call.io # "getvalue" /\ Len(first) > 100 => call.text = FirstChars(first, 10000)
            \* cleaned: no control character, no character from 0x7F to 0xFF, and
            \* no whitespace but single spaces between words
            /\ \A i \in 1..Len(call.text) :
                  /\ call.text[i] >= 32
                  /\ call.text[i] < 127 \/ call.text[i] > 255
                  /\ call.text[i] = 32 => i > 1 /\ call.text[i - 1] # 32

\* the bytes are 10001 times 0x80: utf-8 and latin-1 give no text, cp1252 gives
\* 10001 euro signs, of which the call returned 10000
C9_Witness ==
    /\ call.branch = "doc"
    /\ call.io = "ok"
    /\ Len(call.file.content) = 10001
    /\ call.file.content[1] = 128
    /\ Len(call.text) = 10000
    /\ call.text[10000] = 8364

(* C5 *)

\* the text the run ends with is the pasted text
UsedManual == cv_text = manual_text /\ (uploaded_file.present => call.text = <<>>)

\* the text the run ends with is genuine: pasted, or extracted and no sentinel
IsGenuine == UsedManual \/ (uploaded_file.present /\ ~IsSentinel)

\* C5, as claimed: the classifier is invoked on the run's final text if and only
\* if the text is non-empty and genuine, whatever words it contains, and then
\* yields exactly one label.
C5_ClassifiedIffGenuine ==
    /\ prediction.shown <=> (cv_text # <<>> /\ IsGenuine)
    /\ prediction.shown =>
          /\ prediction.input = cv_text
          /\ \E k \in 1..Len(Classes) : prediction.label = Classes[k]

(* C6 *)

\* C6: on a run where the uploaded file gave a non-empty text that is no
\* sentinel, the run's text is the file's text and a prediction, when one is
\* made, is computed from the file's text alone, whatever the paste box holds;
\* one is made whenever the file's text has neither "Error" nor "Unsupported"
\* in it.  Pasted text is predicted from only when the file gave no text.
C6_FileTextFirst ==
    /\ uploaded_file.present /\ call.text # <<>> /\ ~IsSentinel =>
          /\ cv_text = call.text
          /\ prediction.shown =>
                prediction.input = call.text /\ prediction.label = Predict(call.text)
          /\ ~SaysErrorOrUnsupported(call.text) => prediction.shown
    /\ prediction.shown /\ uploaded_file.present /\ prediction.input # call.text =>
          call.text = <<>> /\ prediction.input = manual_text

\* the file gave "A\nB", the paste box holds "pasted cv", the prediction is of
\* the file's text
C6_Witness ==
    /\ uploaded_file.present
    /\ call.text = <<65, 10, 66>>
    /\ manual_text = <<112, 97, 115, 116, 101, 100, 32, 99, 118>>
    /\ prediction.shown
    /\ prediction.input = <<65, 10, 66>>

(* C7 *)

\* C7, as claimed: on a run where the uploaded file gave an error or an
\* unsupported-format sentinel, the sentinel is displayed, and if the paste box
\* is not empty the pasted text is the text predicted from (stated for a pasted
\* text with neither "Error" nor "Unsupported" in it).
C7_PasteAfterFailure ==
    uploaded_file.present /\ IsSentinel =>
        /\ upload_view.kind = "error"
        /\ upload_view.message = call.text
        /\ manual_text # <<>> /\ ~SaysErrorOrUnsupported(manual_text) =>
              /\ cv_text = manual_text
              /\ prediction.shown
              /\ prediction.input = manual_text

(* C10 *)

====
